---- MODULE Spec2Model ----
(***************************************************************************)
(* Inner-product functional encryption over a prime-order subgroup of      *)
(* Z_P^*: the Damgard scheme (package fullysec) and the Simple DDH scheme  *)
(* (package simple), as implemented in innerprod/fullysec/damgard.go.      *)
(*                                                                         *)
(* Numbers are mathematical integers (math/big).  The 1024..4096-bit       *)
(* groups of the code are replaced by small safe-prime groups so that the  *)
(* arithmetic can be enumerated; every formula of the code is kept.        *)
(***************************************************************************)
EXTENDS Integers, Sequences, FiniteSets, TLC

VARIABLES scheme, pc, pending, msk, mpk, ct, dk, ret, calls

vars == <<scheme, pc, pending, msk, mpk, ct, dk, ret, calls>>

(***************************************************************************)
(* Bounds of the model.                                                    *)
(***************************************************************************)
\* largest vector length l passed to a constructor
MaxL == 2
\* largest coordinate bound passed to a constructor
MaxB == 2
\* largest modulus P the safe-prime generator hands out
MaxP == 11
\* the sampler hands out the MaxSamples largest values of its range
MaxSamples == 2
\* the per-call count of sampler draws saturates here
MaxDraws == 3

(***************************************************************************)
(* math/big arithmetic.                                                    *)
(***************************************************************************)
Abs(n) == IF n < 0 THEN -n ELSE n

\* big.Int.Mod: Euclidean modulus, result in [0,m)
Mod(a, m) == a % m

RECURSIVE Pow(_, _)
\* big.Int.Exp(x, y, nil) for y >= 0
Pow(x, y) == IF y <= 0 THEN 1 ELSE x * Pow(x, y - 1)

RECURSIVE Exp(_, _, _)
\* big.Int.Exp(x, y, m) for y >= 0 and m > 0
Exp(x, y, m) == IF y <= 0 THEN 1 % m ELSE (Mod(x, m) * Exp(x, y - 1, m)) % m

\* big.Int.ModInverse(g, n) has a result exactly when g is a unit mod n
HasInverse(g, n) == \E v \in 1..(n - 1) : (Mod(g, n) * v) % n = 1

\* big.Int.ModInverse(g, n); 0 stands for the nil it returns without inverse
ModInverse(g, n) ==
    IF HasInverse(g, n)
    THEN CHOOSE v \in 1..(n - 1) : (Mod(g, n) * v) % n = 1
    ELSE 0

\* internal.ModExp: a negative exponent gives the inverse of g^|x|
ModExp(g, x, m) ==
    IF x < 0 THEN ModInverse(Exp(g, Abs(x), m), m) ELSE Exp(g, x, m)

\* smallest s with s*s >= n
CeilSqrt(n) == CHOOSE s \in 0..n : s * s >= n /\ \A t \in 0..(s - 1) : t * t < n

\* number of bits of n >= 1
BitLen(n) == CHOOSE k \in 1..31 : Pow(2, k - 1) <= n /\ n < Pow(2, k)

IsPrime(n) == n >= 2 /\ \A d \in 2..(n - 1) : n % d # 0

(***************************************************************************)
(* data.Vector                                                             *)
(***************************************************************************)
RECURSIVE SumTo(_, _, _)
SumTo(v, w, n) == IF n = 0 THEN 0 ELSE SumTo(v, w, n - 1) + v[n] * w[n]

\* Vector.CheckBound: TRUE when every coordinate lies in [-bound, bound]
CheckBound(v, bound) == \A i \in 1..Len(v) : Abs(v[i]) <= bound

\* Vector.Dot is defined for vectors of equal length only
DotDefined(v, w) == Len(v) = Len(w)

\* Vector.Dot
Dot(v, w) == SumTo(v, w, Len(v))

(***************************************************************************)
(* sample.UniformRange and keygen.NewElGamal                               *)
(***************************************************************************)
\* the values NewUniformRange(min, max).Sample() can return
SampleRange(min, max) == {v \in min..(max - 1) : v >= max - MaxSamples}

SampleFail == [ok |-> FALSE, v |-> 0]

\* the outcomes of one Sample() call: a value of the range, or an error
SampleOutcomes(min, max) ==
    {[ok |-> TRUE, v |-> v] : v \in SampleRange(min, max)} \cup {SampleFail}

\* the elements of order q modulo p = 2q+1
OrderQ(p, q) == {g \in 2..(p - 1) : Exp(g, q, p) = 1}

\* the G handed out with p: the least element of order q
Generator(p, q) == CHOOSE g \in OrderQ(p, q) : \A a \in OrderQ(p, q) : g <= a

\* the keys NewElGamal(modulusLength) can return: P = 2Q+1 a safe prime of
\* modulusLength bits, G of order Q
ElGamalKeys(modulusLength) ==
    {[P |-> p, Q |-> (p - 1) \div 2, G |-> Generator(p, (p - 1) \div 2)] :
        p \in {n \in 5..MaxP : /\ IsPrime(n)
                                /\ IsPrime((n - 1) \div 2)
                                /\ BitLen(n) = modulusLength}}

NoKey == [P |-> 0, Q |-> 0, G |-> 0]

\* the outcomes of NewElGamal(modulusLength): a key, or an error
NewElGamal(modulusLength) ==
    {[ok |-> TRUE, key |-> k] : k \in ElGamalKeys(modulusLength)}
        \cup {[ok |-> FALSE, key |-> NoKey]}

(***************************************************************************)
(* Scheme parameters and constructors.                                     *)
(***************************************************************************)
\* no scheme: the nil a failed constructor returns
NilScheme == [kind |-> "nil"]

\* &DamgardParams{L, Bound, G, H, P, Q}
DamgardParams(l, bound, g, h, p, q) ==
    [kind |-> "Damgard", L |-> l, Bound |-> bound, G |-> g, H |-> h,
     P |-> p, Q |-> q]

\* &DDHParams{L, Bound, G, P, Q}
DDHParams(l, bound, g, p, q) ==
    [kind |-> "DDH", L |-> l, Bound |-> bound, G |-> g, P |-> p, Q |-> q]

\* the modulus lengths the precomputed constructors know
PrecompModuli == {1024, 1536, 2048, 2560, 3072, 4096}

\* The precomputed (g, h, p) of NewDamgardPrecomp.  Each literal of the code
\* is a safe prime p with g and h of order (p-1)/2 and h passing both checks
\* of NewDamgard; the stand-ins below are small groups with the same
\* properties.
DamgardPrecompTable(modulusLength) ==
    CASE modulusLength = 1024 -> [g |-> 3, h |-> 4, p |-> 11]
      [] modulusLength = 1536 -> [g |-> 3, h |-> 4, p |-> 11]
      [] modulusLength = 2048 -> [g |-> 3, h |-> 4, p |-> 11]
      [] modulusLength = 2560 -> [g |-> 3, h |-> 4, p |-> 11]
      [] modulusLength = 3072 -> [g |-> 3, h |-> 4, p |-> 11]
      [] modulusLength = 4096 -> [g |-> 3, h |-> 4, p |-> 11]

\* The precomputed (g, p) of NewDDHPrecomp.  Each literal of the code is a
\* safe prime p with g of order (p-1)/2; the stand-in is a small group with
\* the same properties.
DDHPrecompTable(modulusLength) ==
    CASE modulusLength = 1024 -> [g |-> 3, p |-> 11]
      [] modulusLength = 1536 -> [g |-> 3, p |-> 11]
      [] modulusLength = 2048 -> [g |-> 3, p |-> 11]
      [] modulusLength = 2560 -> [g |-> 3, p |-> 11]
      [] modulusLength = 3072 -> [g |-> 3, p |-> 11]
      [] modulusLength = 4096 -> [g |-> 3, p |-> 11]

\* q := (p - 1) / 2 of the precomputed constructors
PrecompQ(p) == (p - 1) \div 2

\* what a constructor returns: an error name ("nil" for none), the scheme
\* and the number of sampler draws it made
Return(err, s, draws) == [err |-> err, scheme |-> s, draws |-> draws]

\* NewDamgard up to the H-selection loop: the error it returns there, or
\* "loop" when it goes on to select H
NewDamgardEnter(l, bound, key) ==
    IF ~key.ok THEN "SetupError"
    ELSE IF 2 * l * Pow(bound, 2) > key.key.Q THEN "PreconditionError"
    ELSE "loop"

\* HSelect without the check of (P-1) mod h
HSelectNoOrderCheck(key, s) ==
    IF ~s.ok THEN "SamplingError"
    ELSE LET h == Exp(key.G, s.v, key.P)
             hInv == ModInverse(h, key.P)
         IN  IF Mod(key.P - 1, hInv) = 0 THEN "continue" ELSE "break"

\* HSelect drawing again after a failed Sample() call
HSelectRetry(key, s) ==
    IF ~s.ok THEN "continue"
    ELSE LET h == Exp(key.G, s.v, key.P)
             hInv == ModInverse(h, key.P)
         IN  IF Mod(key.P - 1, h) = 0 THEN "continue"
             ELSE IF Mod(key.P - 1, hInv) = 0 THEN "continue"
             ELSE "break"

\* One round of the H-selection loop of NewDamgard with sampler outcome s:
\* the error, "continue" when h is rejected, or "break".
HSelect(key, s) ==
    IF ~s.ok THEN "SamplingError"
    ELSE LET h == Exp(key.G, s.v, key.P)
             hInv == ModInverse(h, key.P)
         IN  IF Mod(key.P - 1, h) = 0 THEN "continue"
             ELSE IF Mod(key.P - 1, hInv) = 0 THEN "continue"
             ELSE "break"

\* the scheme NewDamgard returns after the loop left with h = G^r
NewDamgardScheme(l, bound, key, r) ==
    DamgardParams(l, bound, key.G, Exp(key.G, r, key.P), key.P, key.Q)

\* NewDamgardPrecomp without the branch of modulusLength 2560
NewDamgardPrecompNo2560(l, modulusLength, bound) ==
    IF modulusLength \notin (PrecompModuli \ {2560})
    THEN Return("UnsupportedModulusError", NilScheme, 0)
    ELSE LET t == DamgardPrecompTable(modulusLength)
             q == PrecompQ(t.p)
         IN  IF 2 * l * Pow(bound, 2) > q
             THEN Return("PreconditionError", NilScheme, 0)
             ELSE Return("nil", DamgardParams(l, bound, t.g, t.h, t.p, q), 0)

NewDamgardPrecomp(l, modulusLength, bound) ==
    IF modulusLength \notin PrecompModuli
    THEN Return("UnsupportedModulusError", NilScheme, 0)
    ELSE LET t == DamgardPrecompTable(modulusLength)
             q == PrecompQ(t.p)
         IN  IF 2 * l * Pow(bound, 2) > q
             THEN Return("PreconditionError", NilScheme, 0)
             ELSE Return("nil", DamgardParams(l, bound, t.g, t.h, t.p, q), 0)

\* NewDDH comparing with >= where the code compares with >
NewDDHRejectsBoundary(l, bound, key) ==
    IF ~key.ok THEN Return("SetupError", NilScheme, 0)
    ELSE IF 2 * l * Pow(bound, 2) >= key.key.Q
    THEN Return("PreconditionError", NilScheme, 0)
    ELSE Return("nil", DDHParams(l, bound, key.key.G, key.key.P, key.key.Q), 0)

NewDDH(l, bound, key) ==
    IF ~key.ok THEN Return("SetupError", NilScheme, 0)
    ELSE IF 2 * l * Pow(bound, 2) > key.key.Q
    THEN Return("PreconditionError", NilScheme, 0)
    ELSE Return("nil", DDHParams(l, bound, key.key.G, key.key.P, key.key.Q), 0)

NewDDHPrecomp(l, modulusLength, bound) ==
    IF modulusLength \notin PrecompModuli
    THEN Return("UnsupportedModulusError", NilScheme, 0)
    ELSE LET t == DDHPrecompTable(modulusLength)
             q == PrecompQ(t.p)
         IN  IF 2 * l * Pow(bound, 2) > q
             THEN Return("PreconditionError", NilScheme, 0)
             ELSE Return("nil", DDHParams(l, bound, t.g, t.p, q), 0)

\* NewDamgardFromParams applying the check of the other constructors
NewDamgardFromParamsChecked(params) ==
    IF 2 * params.L * Pow(params.Bound, 2) > params.Q
    THEN Return("PreconditionError", NilScheme, 0)
    ELSE Return("nil", params, 0)

\* &Damgard{Params: params}
NewDamgardFromParams(params) == Return("nil", params, 0)

\* &DDH{Params: params}
NewDDHFromParams(params) == Return("nil", params, 0)

(***************************************************************************)
(* dlog.CalcZp with WithNeg and WithBound: baby-step giant-step.           *)
(***************************************************************************)
\* WithBound: m = ceil(sqrt(bound)) + 1
StepCount(bound) == CeilSqrt(bound) + 1

\* the table T maps g^j mod p to j for j = 0..m-1; a probe of v hits when
\* v is a key of T
TableHit(v, g, p, m) == \E j \in 0..(m - 1) : Exp(g, j, p) = v

\* T[v]: the j stored for v (the last insertion wins)
TableGet(v, g, p, m) ==
    CHOOSE j \in 0..(m - 1) :
        /\ Exp(g, j, p) = v
        /\ \A k \in (j + 1)..(m - 1) : Exp(g, k, p) # v

\* the value probed in giant step i: h * z^i mod p, with z = g^-m
Probe(h, z, p, i) == Mod(h * Exp(z, i, p), p)

\* the giant steps i = 0..m at which the probe hits
GiantHits(h, g, z, p, m) ==
    {i \in 0..m : TableHit(Probe(h, z, p, i), g, p, m)}

\* one branch of the search: e = i*m + j at the first hit, found = FALSE
\* when no giant step hits
RunBabyStepGiantStep(h, g, p, m) ==
    LET z == ModExp(g, -m, p)
        hits == GiantHits(h, g, z, p, m)
    IN  IF hits = {} THEN [found |-> FALSE, e |-> 0]
        ELSE LET i == CHOOSE a \in hits : \A b \in hits : a <= b
             IN  [found |-> TRUE,
                  e |-> i * m + TableGet(Probe(h, z, p, i), g, p, m)]

\* BabyStepGiantStep(h, g) with the negative branch: the positive branch
\* first, then the same search for h^-1 with the sign flipped
BabyStepGiantStep(h, g, p, bound) ==
    LET m == StepCount(bound)
        pos == RunBabyStepGiantStep(h, g, p, m)
        neg == RunBabyStepGiantStep(ModInverse(h, p), g, p, m)
    IN  IF pos.found THEN [err |-> "nil", val |-> pos.e]
        ELSE IF neg.found THEN [err |-> "nil", val |-> -neg.e]
        ELSE [err |-> "DLogNotFound", val |-> 0]

(***************************************************************************)
(* Damgard: GenerateMasterKeys, DeriveKey, Encrypt, Decrypt.               *)
(***************************************************************************)
\* the number of Sample() calls made on tape: up to and including the first
\* failing one
Drawn(tape) ==
    IF \E i \in 1..Len(tape) : ~tape[i].ok
    THEN CHOOSE i \in 1..Len(tape) :
            ~tape[i].ok /\ \A k \in 1..(i - 1) : tape[k].ok
    ELSE Len(tape)

Failed(tape) == \E i \in 1..Len(tape) : ~tape[i].ok

\* DamgardGenerateMasterKeys with a public key G^s_i, without the factor
\* H^t_i
DamgardGenerateMasterKeysNoH(d, tape) ==
    IF Failed(tape)
    THEN [err |-> "SamplingError", S |-> <<>>, T |-> <<>>, pub |-> <<>>,
          draws |-> Drawn(tape)]
    ELSE [err |-> "nil",
          S |-> [i \in 1..d.L |-> tape[2 * i - 1].v],
          T |-> [i \in 1..d.L |-> tape[2 * i].v],
          pub |-> [i \in 1..d.L |-> Exp(d.G, tape[2 * i - 1].v, d.P)],
          draws |-> Drawn(tape)]

\* tape holds the outcomes of the 2*L Sample() calls in call order:
\* s_1, t_1, s_2, t_2, ...
DamgardGenerateMasterKeys(d, tape) ==
    IF Failed(tape)
    THEN [err |-> "SamplingError", S |-> <<>>, T |-> <<>>, pub |-> <<>>,
          draws |-> Drawn(tape)]
    ELSE [err |-> "nil",
          S |-> [i \in 1..d.L |-> tape[2 * i - 1].v],
          T |-> [i \in 1..d.L |-> tape[2 * i].v],
          pub |-> [i \in 1..d.L |->
                      Mod(Exp(d.G, tape[2 * i - 1].v, d.P)
                            * Exp(d.H, tape[2 * i].v, d.P), d.P)],
          draws |-> Drawn(tape)]

\* DamgardDeriveKey reducing with big.Int.Rem (the remainder of the truncated
\* division, with the sign of the dividend) where the code reduces with Mod
DamgardDeriveKeyRem(d, masterSecKey, y) ==
    LET Rem(a, m) == IF a < 0 THEN -((-a) % m) ELSE a % m
    IN
    IF ~CheckBound(y, d.Bound)
    THEN [err |-> "BoundError", Key1 |-> 0, Key2 |-> 0]
    ELSE IF ~DotDefined(masterSecKey.S, y) \/ ~DotDefined(masterSecKey.T, y)
    THEN [err |-> "DimensionError", Key1 |-> 0, Key2 |-> 0]
    ELSE [err |-> "nil",
          Key1 |-> Rem(Dot(masterSecKey.S, y), d.Q),
          Key2 |-> Rem(Dot(masterSecKey.T, y), d.Q)]

DamgardDeriveKey(d, masterSecKey, y) ==
    IF ~CheckBound(y, d.Bound)
    THEN [err |-> "BoundError", Key1 |-> 0, Key2 |-> 0]
    ELSE IF ~DotDefined(masterSecKey.S, y) \/ ~DotDefined(masterSecKey.T, y)
    THEN [err |-> "DimensionError", Key1 |-> 0, Key2 |-> 0]
    ELSE [err |-> "nil",
          Key1 |-> Mod(Dot(masterSecKey.S, y), d.Q),
          Key2 |-> Mod(Dot(masterSecKey.T, y), d.Q)]

\* DamgardEncrypt sampling r before it checks the bound of x
DamgardEncryptSamplesFirst(d, x, masterPubKey, s) ==
    IF ~s.ok
    THEN [err |-> "SamplingError", val |-> <<>>, draws |-> 1]
    ELSE IF ~CheckBound(x, d.Bound)
    THEN [err |-> "BoundError", val |-> <<>>, draws |-> 1]
    ELSE IF Len(masterPubKey) < Len(x)
    THEN [err |-> "panic", val |-> <<>>, draws |-> 1]
    ELSE [err |-> "nil",
          val |-> <<Exp(d.G, s.v, d.P), Exp(d.H, s.v, d.P)>> \o
                  [i \in 1..Len(x) |->
                      Mod(Exp(masterPubKey[i], s.v, d.P)
                            * ModExp(d.G, x[i], d.P), d.P)],
          draws |-> 1]

\* s is the outcome of the one Sample() call; "panic" is the run-time panic
\* of masterPubKey[i] with i out of range
DamgardEncrypt(d, x, masterPubKey, s) ==
    IF ~CheckBound(x, d.Bound)
    THEN [err |-> "BoundError", val |-> <<>>, draws |-> 0]
    ELSE IF ~s.ok
    THEN [err |-> "SamplingError", val |-> <<>>, draws |-> 1]
    ELSE IF Len(masterPubKey) < Len(x)
    THEN [err |-> "panic", val |-> <<>>, draws |-> 1]
    ELSE [err |-> "nil",
          val |-> <<Exp(d.G, s.v, d.P), Exp(d.H, s.v, d.P)>> \o
                  [i \in 1..Len(x) |->
                      Mod(Exp(masterPubKey[i], s.v, d.P)
                            * ModExp(d.G, x[i], d.P), d.P)],
          draws |-> 1]

RECURSIVE Num(_, _, _, _, _)
\* num after the first n rounds of the loop over cipher[skip:]
Num(cipher, skip, y, p, n) ==
    IF n = 0 THEN 1
    ELSE Mod(Num(cipher, skip, y, p, n - 1)
               * ModExp(cipher[skip + n], y[n], p), p)

\* DamgardDecrypt with denom = c^k1, without the factor d^k2
DamgardDecryptNoD(d, cipher, key, y) ==
    IF ~CheckBound(y, d.Bound)
    THEN [err |-> "BoundError", val |-> 0, r |-> 0]
    ELSE IF Len(cipher) < 2 \/ Len(cipher) - 2 > Len(y)
    THEN [err |-> "panic", val |-> 0, r |-> 0]
    ELSE LET num == Num(cipher, 2, y, d.P, Len(cipher) - 2)
             denom == Exp(cipher[1], key.Key1, d.P)
             r == Mod(num * ModInverse(denom, d.P), d.P)
             res == BabyStepGiantStep(r, d.G, d.P, d.L * Pow(d.Bound, 2))
         IN  IF ~HasInverse(denom, d.P)
             THEN [err |-> "panic", val |-> 0, r |-> 0]
             ELSE [err |-> res.err, val |-> res.val, r |-> r]

\* "panic" is the run-time panic of cipher[2:] on a cipher shorter than 2,
\* of y[i] with i out of range, or of Mul with the nil of ModInverse
DamgardDecrypt(d, cipher, key, y) ==
    IF ~CheckBound(y, d.Bound)
    THEN [err |-> "BoundError", val |-> 0, r |-> 0]
    ELSE IF Len(cipher) < 2 \/ Len(cipher) - 2 > Len(y)
    THEN [err |-> "panic", val |-> 0, r |-> 0]
    ELSE LET num == Num(cipher, 2, y, d.P, Len(cipher) - 2)
             t1 == Exp(cipher[1], key.Key1, d.P)
             t2 == Exp(cipher[2], key.Key2, d.P)
             denom == Mod(t1 * t2, d.P)
             r == Mod(num * ModInverse(denom, d.P), d.P)
             res == BabyStepGiantStep(r, d.G, d.P, d.L * Pow(d.Bound, 2))
         IN  IF ~HasInverse(denom, d.P)
             THEN [err |-> "panic", val |-> 0, r |-> 0]
             ELSE [err |-> res.err, val |-> res.val, r |-> r]

(***************************************************************************)
(* DDH: GenerateMasterKeys, DeriveKey, Encrypt, Decrypt.                   *)
(***************************************************************************)
\* tape holds the outcomes of the L Sample() calls in call order
DDHGenerateMasterKeys(d, tape) ==
    IF Failed(tape)
    THEN [err |-> "SamplingError", sec |-> <<>>, pub |-> <<>>,
          draws |-> Drawn(tape)]
    ELSE [err |-> "nil",
          sec |-> [i \in 1..d.L |-> tape[i].v],
          pub |-> [i \in 1..d.L |-> ModExp(d.G, tape[i].v, d.P)],
          draws |-> Drawn(tape)]

DDHDeriveKey(d, masterSecKey, y) ==
    IF ~CheckBound(y, d.Bound) THEN [err |-> "BoundError", key |-> 0]
    ELSE IF ~DotDefined(masterSecKey, y)
    THEN [err |-> "DimensionError", key |-> 0]
    ELSE [err |-> "nil", key |-> Mod(Dot(masterSecKey, y), d.Q)]

\* DDHEncrypt raising G to x_i with big.Int.Exp as modelled by Exp (1 for a
\* negative exponent) where the code calls internal.ModExp
DDHEncryptUnsigned(d, x, masterPubKey, s) ==
    IF ~CheckBound(x, d.Bound)
    THEN [err |-> "BoundError", val |-> <<>>, draws |-> 0]
    ELSE IF ~s.ok
    THEN [err |-> "SamplingError", val |-> <<>>, draws |-> 1]
    ELSE IF Len(masterPubKey) < Len(x)
    THEN [err |-> "panic", val |-> <<>>, draws |-> 1]
    ELSE [err |-> "nil",
          val |-> <<Exp(d.G, s.v, d.P)>> \o
                  [i \in 1..Len(x) |->
                      Mod(Exp(masterPubKey[i], s.v, d.P)
                            * Exp(d.G, x[i], d.P), d.P)],
          draws |-> 1]

DDHEncrypt(d, x, masterPubKey, s) ==
    IF ~CheckBound(x, d.Bound)
    THEN [err |-> "BoundError", val |-> <<>>, draws |-> 0]
    ELSE IF ~s.ok
    THEN [err |-> "SamplingError", val |-> <<>>, draws |-> 1]
    ELSE IF Len(masterPubKey) < Len(x)
    THEN [err |-> "panic", val |-> <<>>, draws |-> 1]
    ELSE [err |-> "nil",
          val |-> <<Exp(d.G, s.v, d.P)>> \o
                  [i \in 1..Len(x) |->
                      Mod(Exp(masterPubKey[i], s.v, d.P)
                            * ModExp(d.G, x[i], d.P), d.P)],
          draws |-> 1]

DDHDecrypt(d, cipher, key, y) ==
    IF ~CheckBound(y, d.Bound)
    THEN [err |-> "BoundError", val |-> 0, r |-> 0]
    ELSE IF Len(cipher) < 1 \/ Len(cipher) - 1 > Len(y)
    THEN [err |-> "panic", val |-> 0, r |-> 0]
    ELSE LET num == Num(cipher, 1, y, d.P, Len(cipher) - 1)
             denom == ModExp(cipher[1], key, d.P)
             r == Mod(num * ModInverse(denom, d.P), d.P)
             res == BabyStepGiantStep(r, d.G, d.P, d.L * Pow(d.Bound, 2))
         IN  IF ~HasInverse(denom, d.P)
             THEN [err |-> "panic", val |-> 0, r |-> 0]
             ELSE [err |-> res.err, val |-> res.val, r |-> r]

(***************************************************************************)
(* Inputs of the calls.                                                    *)
(***************************************************************************)
Min(a, b) == IF a < b THEN a ELSE b

\* the modulus lengths passed to NewDamgard and NewDDH
ModulusLengths == 3..BitLen(MaxP)

\* the modulus lengths passed to the precomputed constructors
PrecompLengths == PrecompModuli \cup {1000, 2047}

\* the vectors of length l with every coordinate in [-b, b]
InBound(l, b) == [1..l -> (-b)..b]

\* a vector of length l whose first coordinate is c
FirstIs(l, c) == [i \in 1..l |-> IF i = 1 THEN c ELSE 0]

\* a vector of length l with every coordinate b
AllB(l, b) == [i \in 1..l |-> b]

\* the vectors passed as x and y: all bounded vectors of length L, vectors
\* just outside the bound, and bounded vectors one shorter and one longer
TestVectors(d) ==
    InBound(d.L, d.Bound)
        \cup {FirstIs(d.L, d.Bound + 1), FirstIs(d.L, -(d.Bound + 1))}
        \cup {AllB(d.L + 1, d.Bound), AllB(d.L - 1, d.Bound)}

Neg(v) == [i \in 1..Len(v) |-> -v[i]]

\* the (cipher, y) passed to Decrypt together with the derived key dk: the
\* ciphertext and the y of the key, the same ciphertext with other y, and
\* a ciphertext one longer or cut to one component with the y of the key
DecryptInputs(c, y, d) ==
    {<<c, y>>, <<c, Neg(y)>>, <<c, FirstIs(d.L, d.Bound + 1)>>,
     <<Append(c, 1), y>>, <<SubSeq(c, 1, 1), y>>}

\* the parameter bundles handed to NewDamgardFromParams when no scheme
\* exists yet: one that the other constructors return, and one with
\* 2*L*B^2 > Q
DamgardBundles ==
    {DamgardParams(1, b, DamgardPrecompTable(1024).g,
                   DamgardPrecompTable(1024).h, DamgardPrecompTable(1024).p,
                   PrecompQ(DamgardPrecompTable(1024).p)) : b \in {1, 2}}

\* the same for NewDDHFromParams
DDHBundles ==
    {DDHParams(1, b, DDHPrecompTable(1024).g, DDHPrecompTable(1024).p,
               PrecompQ(DDHPrecompTable(1024).p)) : b \in {1, 2}}

(***************************************************************************)
(* State.                                                                  *)
(***************************************************************************)
NoPending == [l |-> 0, bound |-> 0, modulusLength |-> 0, key |-> NoKey,
              draws |-> 0]
NoSecKey == [set |-> FALSE, S |-> <<>>, T |-> <<>>]
NoCipher == [set |-> FALSE, x |-> <<>>, r |-> 0, c |-> <<>>]
NoDerivedKey == [set |-> FALSE, y |-> <<>>, Key1 |-> 0, Key2 |-> 0]

(***************************************************************************)
(* Calls in flight on one shared scheme instance.  A call is a frame: its  *)
(* position in the method body and its locals.  Every step of a frame      *)
(* reads the shared objects (the scheme, the keys, the vectors, the        *)
(* ciphertext) as they are at that moment; a holds their values at the     *)
(* moment of the call.                                                     *)
(***************************************************************************)
Callers == {"a", "b"}

NoArgs == [d |-> NilScheme, sk |-> NoSecKey, pub |-> <<>>, cipher |-> <<>>,
           key |-> NoDerivedKey, x |-> <<>>, y |-> <<>>]

IdleCall == [op |-> "none", pc |-> "idle", a |-> NoArgs, s |-> SampleFail,
             i |-> 0, num |-> 0, t1 |-> 0, r |-> 0, out |-> <<>>,
             err |-> "nil"]

Init ==
    /\ scheme = NilScheme
    /\ pc = "idle"
    /\ pending = NoPending
    /\ msk = NoSecKey
    /\ mpk = <<>>
    /\ ct = NoCipher
    /\ dk = NoDerivedKey
    /\ ret = [op |-> "none", err |-> "nil", draws |-> 0]
    /\ calls = [c \in Callers |-> IdleCall]

\* the record of a constructor call and what it returned
\* (q is the group order the constructor compared with, 0 when it had none)
SetupRet(op, l, modulusLength, bound, q, err, draws) ==
    [op |-> op, l |-> l, modulusLength |-> modulusLength, bound |-> bound,
     q |-> q, err |-> err, draws |-> draws]

\* the record of a NewDamgard call after a round of its loop: sampled tells
\* whether the Sample() call of the round returned a value
LoopRet(r, err, draws, sampled) ==
    [op |-> r.op, l |-> r.l, modulusLength |-> r.modulusLength,
     bound |-> r.bound, q |-> r.q, err |-> err, draws |-> draws,
     sampled |-> sampled]

CanSetup == scheme.kind = "nil" /\ pc = "idle"

\* A run encrypts one x (any number of times) and derives the key of one y
\* (any number of times): the first call takes any test vector, the later
\* ones the vector of the first successful call.
EncryptInputs == IF ct.set THEN {ct.x} ELSE TestVectors(scheme)

DeriveKeyInputs == IF dk.set THEN {dk.y} ELSE TestVectors(scheme)

(***************************************************************************)
(* Constructors.                                                           *)
(***************************************************************************)
\* NewDamgard up to the H-selection loop
CallNewDamgard ==
    /\ CanSetup
    /\ \E l \in 0..MaxL, modulusLength \in ModulusLengths, bound \in 0..MaxB :
        \E key \in NewElGamal(modulusLength) :
            \E e \in {NewDamgardEnter(l, bound, key)} :
                IF e = "loop"
                THEN /\ pc' = "hloop"
                     /\ pending' = [l |-> l, bound |-> bound,
                                    modulusLength |-> modulusLength,
                                    key |-> key.key, draws |-> 0]
                     /\ ret' = SetupRet("NewDamgard", l, modulusLength, bound,
                                        key.key.Q, "running", 0)
                ELSE /\ pc' = "idle"
                     /\ pending' = NoPending
                     /\ ret' = SetupRet("NewDamgard", l, modulusLength, bound,
                                        key.key.Q, e, 0)
    /\ UNCHANGED <<scheme, msk, mpk, ct, dk, calls>>

\* one round of the H-selection loop of NewDamgard
StepNewDamgard ==
    /\ pc = "hloop"
    /\ \E s \in SampleOutcomes(2, pending.key.Q) :
        \E e \in {HSelect(pending.key, s)},
           n \in {Min(pending.draws + 1, MaxDraws)} :
            IF e = "continue"
            THEN /\ pending' = [pending EXCEPT !.draws = n]
                 /\ ret' = LoopRet(ret, ret.err, n, s.ok)
                 /\ UNCHANGED <<pc, scheme>>
            ELSE /\ pc' = "idle"
                 /\ pending' = NoPending
                 /\ ret' = LoopRet(ret, IF e = "break" THEN "nil" ELSE e,
                                    n, s.ok)
                 /\ scheme' = IF e = "break"
                              THEN NewDamgardScheme(pending.l, pending.bound,
                                                    pending.key, s.v)
                              ELSE NilScheme
    /\ UNCHANGED <<msk, mpk, ct, dk, calls>>

CallNewDamgardPrecomp ==
    /\ CanSetup
    /\ \E l \in 0..MaxL, modulusLength \in PrecompLengths, bound \in 0..MaxB :
        \E res \in {NewDamgardPrecomp(l, modulusLength, bound)} :
            /\ scheme' = res.scheme
            /\ ret' = SetupRet("NewDamgardPrecomp", l, modulusLength, bound,
                               IF modulusLength \in PrecompModuli
                               THEN PrecompQ(DamgardPrecompTable(modulusLength).p)
                               ELSE 0,
                               res.err, res.draws)
    /\ UNCHANGED <<pc, pending, msk, mpk, ct, dk, calls>>

CallNewDDH ==
    /\ CanSetup
    /\ \E l \in 0..MaxL, modulusLength \in ModulusLengths, bound \in 0..MaxB :
        \E key \in NewElGamal(modulusLength) :
            \E res \in {NewDDH(l, bound, key)} :
                /\ scheme' = res.scheme
                /\ ret' = SetupRet("NewDDH", l, modulusLength, bound,
                                   key.key.Q, res.err, res.draws)
    /\ UNCHANGED <<pc, pending, msk, mpk, ct, dk, calls>>

CallNewDDHPrecomp ==
    /\ CanSetup
    /\ \E l \in 0..MaxL, modulusLength \in PrecompLengths, bound \in 0..MaxB :
        \E res \in {NewDDHPrecomp(l, modulusLength, bound)} :
            /\ scheme' = res.scheme
            /\ ret' = SetupRet("NewDDHPrecomp", l, modulusLength, bound,
                               IF modulusLength \in PrecompModuli
                               THEN PrecompQ(DDHPrecompTable(modulusLength).p)
                               ELSE 0,
                               res.err, res.draws)
    /\ UNCHANGED <<pc, pending, msk, mpk, ct, dk, calls>>

\* what the last call returned when it was a Decrypt call
LastDecrypt ==
    IF ret.op = "Decrypt"
    THEN [set |-> TRUE, cipher |-> ret.cipher, y |-> ret.y, err |-> ret.err,
          val |-> ret.val]
    ELSE [set |-> FALSE, cipher |-> <<>>, y |-> <<>>, err |-> "nil", val |-> 0]

\* A run builds its scheme from a bundle, or rebuilds the scheme it has from
\* that scheme's Params after a Decrypt call that took the run's ciphertext
\* to the discrete-log calculator.
CanBuildFromParams(kind) ==
    /\ pc = "idle"
    /\ \/ scheme = NilScheme
       \/ /\ scheme.kind = kind
          /\ ret.op = "Decrypt"
          /\ ret.cipher = ct.c
          /\ ret.err \in {"nil", "DLogNotFound"}

CallNewDamgardFromParams ==
    /\ CanBuildFromParams("Damgard")
    /\ \E params \in (IF scheme = NilScheme THEN DamgardBundles ELSE {scheme}) :
        \E res \in {NewDamgardFromParams(params)} :
            /\ scheme' = res.scheme
            /\ ret' = [op |-> "NewDamgardFromParams", err |-> res.err,
                       draws |-> res.draws, params |-> params,
                       prev |-> LastDecrypt]
    /\ UNCHANGED <<pc, pending, msk, mpk, ct, dk, calls>>

CallNewDDHFromParams ==
    /\ CanBuildFromParams("DDH")
    /\ \E params \in (IF scheme = NilScheme THEN DDHBundles ELSE {scheme}) :
        \E res \in {NewDDHFromParams(params)} :
            /\ scheme' = res.scheme
            /\ ret' = [op |-> "NewDDHFromParams", err |-> res.err,
                       draws |-> res.draws, params |-> params,
                       prev |-> LastDecrypt]
    /\ UNCHANGED <<pc, pending, msk, mpk, ct, dk, calls>>

(***************************************************************************)
(* Calls on a Damgard scheme.                                              *)
(***************************************************************************)
CallDamgardGenerateMasterKeys ==
    /\ scheme.kind = "Damgard"
    /\ ~msk.set
    /\ \E tape \in [1..(2 * scheme.L) -> SampleOutcomes(2, scheme.Q)] :
        \E res \in {DamgardGenerateMasterKeys(scheme, tape)} :
            /\ msk' = IF res.err = "nil"
                      THEN [set |-> TRUE, S |-> res.S, T |-> res.T]
                      ELSE msk
            /\ mpk' = IF res.err = "nil" THEN res.pub ELSE mpk
            /\ ret' = [op |-> "GenerateMasterKeys", err |-> res.err,
                       draws |-> res.draws, S |-> res.S, T |-> res.T,
                       pub |-> res.pub,
                       tape |-> IF res.err = "nil" THEN tape ELSE <<>>,
                       calls |-> [i \in 1..res.draws |-> tape[i].ok]]
    /\ UNCHANGED <<scheme, pc, pending, ct, dk, calls>>

CallDamgardDeriveKey ==
    /\ scheme.kind = "Damgard"
    /\ msk.set
    /\ \E y \in DeriveKeyInputs :
        \E res \in {DamgardDeriveKey(scheme, msk, y)} :
            /\ dk' = IF res.err = "nil"
                     THEN [set |-> TRUE, y |-> y, Key1 |-> res.Key1,
                           Key2 |-> res.Key2]
                     ELSE dk
            /\ ret' = [op |-> "DeriveKey", err |-> res.err, draws |-> 0,
                       y |-> y, Key1 |-> res.Key1, Key2 |-> res.Key2]
    /\ UNCHANGED <<scheme, pc, pending, msk, mpk, ct, calls>>

CallDamgardEncrypt ==
    /\ scheme.kind = "Damgard"
    /\ msk.set
    /\ \E x \in EncryptInputs, s \in SampleOutcomes(2, scheme.Q) :
        \E res \in {DamgardEncrypt(scheme, x, mpk, s)} :
            /\ ct' = IF res.err = "nil"
                     THEN [set |-> TRUE, x |-> x, r |-> s.v, c |-> res.val]
                     ELSE ct
            /\ ret' = [op |-> "Encrypt", err |-> res.err, draws |-> res.draws,
                       x |-> x, val |-> res.val]
    /\ UNCHANGED <<scheme, pc, pending, msk, mpk, dk, calls>>

\* Damgard.Decrypt with num starting as cipher[2] where the code starts it as
\* big.NewInt(1): num.Mod then writes every partial product into the
\* caller's ciphertext
CallDamgardDecryptInPlace ==
    /\ scheme.kind = "Damgard"
    /\ ct.set
    /\ dk.set
    /\ \E in \in DecryptInputs(ct.c, dk.y, scheme) :
        \E res \in {DamgardDecrypt(scheme, in[1], dk, in[2])} :
            /\ ret' = [op |-> "Decrypt", err |-> res.err, draws |-> 0,
                       cipher |-> in[1], y |-> in[2], val |-> res.val,
                       r |-> res.r]
            /\ ct' = IF res.err \in {"nil", "DLogNotFound"} /\ Len(ct.c) >= 3
                     THEN [ct EXCEPT !.c[3] =
                              Num(in[1], 2, in[2], scheme.P, Len(in[1]) - 2)]
                     ELSE ct
    /\ UNCHANGED <<scheme, pc, pending, msk, mpk, dk, calls>>

CallDamgardDecrypt ==
    /\ scheme.kind = "Damgard"
    /\ ct.set
    /\ dk.set
    /\ \E in \in DecryptInputs(ct.c, dk.y, scheme) :
        \E res \in {DamgardDecrypt(scheme, in[1], dk, in[2])} :
            ret' = [op |-> "Decrypt", err |-> res.err, draws |-> 0,
                    cipher |-> in[1], y |-> in[2], val |-> res.val,
                    r |-> res.r]
    /\ UNCHANGED <<scheme, pc, pending, msk, mpk, ct, dk, calls>>

(***************************************************************************)
(* Calls on a DDH scheme.                                                  *)
(***************************************************************************)
CallDDHGenerateMasterKeys ==
    /\ scheme.kind = "DDH"
    /\ ~msk.set
    /\ \E tape \in [1..scheme.L -> SampleOutcomes(2, scheme.Q)] :
        \E res \in {DDHGenerateMasterKeys(scheme, tape)} :
            /\ msk' = IF res.err = "nil"
                      THEN [set |-> TRUE, S |-> res.sec, T |-> <<>>]
                      ELSE msk
            /\ mpk' = IF res.err = "nil" THEN res.pub ELSE mpk
            /\ ret' = [op |-> "GenerateMasterKeys", err |-> res.err,
                       draws |-> res.draws, S |-> res.sec, T |-> <<>>,
                       pub |-> res.pub,
                       tape |-> IF res.err = "nil" THEN tape ELSE <<>>,
                       calls |-> [i \in 1..res.draws |-> tape[i].ok]]
    /\ UNCHANGED <<scheme, pc, pending, ct, dk, calls>>

CallDDHDeriveKey ==
    /\ scheme.kind = "DDH"
    /\ msk.set
    /\ \E y \in DeriveKeyInputs :
        \E res \in {DDHDeriveKey(scheme, msk.S, y)} :
            /\ dk' = IF res.err = "nil"
                     THEN [set |-> TRUE, y |-> y, Key1 |-> res.key,
                           Key2 |-> 0]
                     ELSE dk
            /\ ret' = [op |-> "DeriveKey", err |-> res.err, draws |-> 0,
                       y |-> y, Key1 |-> res.key, Key2 |-> 0]
    /\ UNCHANGED <<scheme, pc, pending, msk, mpk, ct, calls>>

CallDDHEncrypt ==
    /\ scheme.kind = "DDH"
    /\ msk.set
    /\ \E x \in EncryptInputs, s \in SampleOutcomes(2, scheme.Q) :
        \E res \in {DDHEncrypt(scheme, x, mpk, s)} :
            /\ ct' = IF res.err = "nil"
                     THEN [set |-> TRUE, x |-> x, r |-> s.v, c |-> res.val]
                     ELSE ct
            /\ ret' = [op |-> "Encrypt", err |-> res.err, draws |-> res.draws,
                       x |-> x, val |-> res.val]
    /\ UNCHANGED <<scheme, pc, pending, msk, mpk, dk, calls>>

CallDDHDecrypt ==
    /\ scheme.kind = "DDH"
    /\ ct.set
    /\ dk.set
    /\ \E in \in DecryptInputs(ct.c, dk.y, scheme) :
        \E res \in {DDHDecrypt(scheme, in[1], dk.Key1, in[2])} :
            ret' = [op |-> "Decrypt", err |-> res.err, draws |-> 0,
                    cipher |-> in[1], y |-> in[2], val |-> res.val,
                    r |-> res.r]
    /\ UNCHANGED <<scheme, pc, pending, msk, mpk, ct, dk, calls>>

Next ==
    \/ CallNewDamgard
    \/ StepNewDamgard
    \/ CallNewDamgardPrecomp
    \/ CallNewDDH
    \/ CallNewDDHPrecomp
    \/ CallNewDamgardFromParams
    \/ CallNewDDHFromParams
    \/ CallDamgardGenerateMasterKeys
    \/ CallDamgardDeriveKey
    \/ CallDamgardEncrypt
    \/ CallDamgardDecrypt
    \/ CallDDHGenerateMasterKeys
    \/ CallDDHDeriveKey
    \/ CallDDHEncrypt
    \/ CallDDHDecrypt

Spec == Init /\ [][Next]_vars

(***************************************************************************)
(* Encrypt, DeriveKey and Decrypt one statement at a time.                 *)
(***************************************************************************)
\* the return statement of a call
Done(f, err, out) == [f EXCEPT !.pc = "done", !.err = err, !.out = out]

\* number of leading group elements of a ciphertext: cipher[2:] for Damgard,
\* cipher[1:] for DDH
Skip(d) == IF d.kind = "Damgard" THEN 2 ELSE 1

\* one step of Encrypt; s is the outcome of Sample() when the step is the
\* sampling step
EncryptStep(d, x, masterPubKey, f, s) ==
    CASE f.pc = "check" ->
            IF ~CheckBound(x, d.Bound) THEN Done(f, "BoundError", <<>>)
            ELSE [f EXCEPT !.pc = "sample"]
      [] f.pc = "sample" ->
            IF ~s.ok THEN Done([f EXCEPT !.s = s], "SamplingError", <<>>)
            ELSE [f EXCEPT !.s = s, !.pc = "head"]
      [] f.pc = "head" ->
            [f EXCEPT !.out = IF d.kind = "Damgard"
                              THEN <<Exp(d.G, f.s.v, d.P),
                                     Exp(d.H, f.s.v, d.P)>>
                              ELSE <<Exp(d.G, f.s.v, d.P)>>,
                      !.i = 0,
                      !.pc = "loop"]
      [] f.pc = "loop" ->
            IF f.i >= Len(x) THEN Done(f, "nil", f.out)
            ELSE IF f.i + 1 > Len(masterPubKey) THEN Done(f, "panic", <<>>)
            ELSE [f EXCEPT !.t1 = Exp(masterPubKey[f.i + 1], f.s.v, d.P),
                           !.out = Append(@,
                               Mod(Exp(masterPubKey[f.i + 1], f.s.v, d.P)
                                     * ModExp(d.G, x[f.i + 1], d.P), d.P)),
                           !.i = @ + 1]

\* one step of DeriveKey
DeriveKeyStep(d, masterSecKey, y, f) ==
    CASE f.pc = "check" ->
            IF ~CheckBound(y, d.Bound) THEN Done(f, "BoundError", <<>>)
            ELSE [f EXCEPT !.pc = "dot"]
      [] f.pc = "dot" ->
            IF d.kind = "Damgard"
            THEN IF ~DotDefined(masterSecKey.S, y)
                    \/ ~DotDefined(masterSecKey.T, y)
                 THEN Done(f, "DimensionError", <<>>)
                 ELSE Done(f, "nil", <<Mod(Dot(masterSecKey.S, y), d.Q),
                                       Mod(Dot(masterSecKey.T, y), d.Q)>>)
            ELSE IF ~DotDefined(masterSecKey.S, y)
                 THEN Done(f, "DimensionError", <<>>)
                 ELSE Done(f, "nil", <<Mod(Dot(masterSecKey.S, y), d.Q)>>)

\* Decrypt keeping its running product in cipher[Skip(d)+1] for the length
\* of the loop and putting the element back after the loop, where the code
\* keeps it in the local num
DecryptStepScratch(d, cipher, key, y, f) ==
    CASE f.pc = "check" ->
            [f |-> IF ~CheckBound(y, d.Bound) THEN Done(f, "BoundError", 0)
                   ELSE IF Len(cipher) < Skip(d) THEN Done(f, "panic", 0)
                   ELSE [f EXCEPT !.num = 1, !.i = 0, !.pc = "loop"],
             cipher |-> cipher]
      [] f.pc = "loop" ->
            IF f.i >= Len(cipher) - Skip(d)
            THEN [f |-> [f EXCEPT !.num = IF f.i = 0 THEN 1
                                          ELSE cipher[Skip(d) + 1],
                                  !.pc = "denom"],
                  cipher |-> IF f.i = 0 THEN cipher
                             ELSE [cipher EXCEPT ![Skip(d) + 1] = f.t1]]
            ELSE IF f.i + 1 > Len(y)
            THEN [f |-> Done(f, "panic", 0), cipher |-> cipher]
            ELSE [f |-> [f EXCEPT !.t1 = IF f.i = 0 THEN cipher[Skip(d) + 1]
                                         ELSE @,
                                  !.i = @ + 1],
                  cipher |->
                      [cipher EXCEPT ![Skip(d) + 1] =
                          IF f.i = 0
                          THEN ModExp(cipher[Skip(d) + 1], y[1], d.P)
                          ELSE Mod(@ * ModExp(cipher[Skip(d) + f.i + 1],
                                              y[f.i + 1], d.P), d.P)]]
      [] f.pc = "denom" ->
            LET denom == IF d.kind = "Damgard"
                         THEN Mod(Exp(cipher[1], key.Key1, d.P)
                                    * Exp(cipher[2], key.Key2, d.P), d.P)
                         ELSE ModExp(cipher[1], key.Key1, d.P)
            IN  [f |-> IF ~HasInverse(denom, d.P) THEN Done(f, "panic", 0)
                       ELSE [f EXCEPT !.r = Mod(f.num
                                                  * ModInverse(denom, d.P),
                                                d.P),
                                      !.pc = "dlog"],
                 cipher |-> cipher]
      [] f.pc = "dlog" ->
            LET res == BabyStepGiantStep(f.r, d.G, d.P,
                                         d.L * Pow(d.Bound, 2))
            IN  [f |-> Done(f, res.err, res.val), cipher |-> cipher]

\* one step of Decrypt: the frame after the step, and the ciphertext after
\* the step, which no statement of Decrypt writes
DecryptStep(d, cipher, key, y, f) ==
    CASE f.pc = "check" ->
            [f |-> IF ~CheckBound(y, d.Bound) THEN Done(f, "BoundError", 0)
                   ELSE IF Len(cipher) < Skip(d) THEN Done(f, "panic", 0)
                   ELSE [f EXCEPT !.num = 1, !.i = 0, !.pc = "loop"],
             cipher |-> cipher]
      [] f.pc = "loop" ->
            IF f.i >= Len(cipher) - Skip(d)
            THEN [f |-> [f EXCEPT !.pc = "denom"], cipher |-> cipher]
            ELSE IF f.i + 1 > Len(y)
            THEN [f |-> Done(f, "panic", 0), cipher |-> cipher]
            ELSE [f |-> [f EXCEPT
                           !.t1 = ModExp(cipher[Skip(d) + f.i + 1],
                                         y[f.i + 1], d.P),
                           !.num = Mod(@ * ModExp(cipher[Skip(d) + f.i + 1],
                                                  y[f.i + 1], d.P), d.P),
                           !.i = @ + 1],
                  cipher |-> cipher]
      [] f.pc = "denom" ->
            LET denom == IF d.kind = "Damgard"
                         THEN Mod(Exp(cipher[1], key.Key1, d.P)
                                    * Exp(cipher[2], key.Key2, d.P), d.P)
                         ELSE ModExp(cipher[1], key.Key1, d.P)
            IN  [f |-> IF ~HasInverse(denom, d.P) THEN Done(f, "panic", 0)
                       ELSE [f EXCEPT !.r = Mod(f.num
                                                  * ModInverse(denom, d.P),
                                                d.P),
                                      !.pc = "dlog"],
                 cipher |-> cipher]
      [] f.pc = "dlog" ->
            LET res == BabyStepGiantStep(f.r, d.G, d.P,
                                         d.L * Pow(d.Bound, 2))
            IN  [f |-> Done(f, res.err, res.val), cipher |-> cipher]

(***************************************************************************)
(* Several callers sharing one scheme, one pair of master keys, one        *)
(* ciphertext and one derived key.                                         *)
(***************************************************************************)
\* the instances shared: length 2 and bound 1 on the 1024-bit table row
SharedSchemes ==
    {NewDamgardPrecomp(2, 1024, 1).scheme, NewDDHPrecomp(2, 1024, 1).scheme}

\* the vectors the shared ciphertext and the shared derived key are made of
SharedVectors == {<<1, -1>>, <<-1, 0>>}

\* the state after setup, key generation, one Encrypt and one DeriveKey, with
\* no call in flight
ConcurrentInit ==
    \E d \in SharedSchemes, x \in SharedVectors, y \in SharedVectors :
      \E v \in SampleRange(2, d.Q), r \in SampleRange(2, d.Q) :
        \E keys \in {IF d.kind = "Damgard"
                     THEN DamgardGenerateMasterKeys(d,
                              [i \in 1..(2 * d.L) |-> [ok |-> TRUE, v |-> v]])
                     ELSE LET k == DDHGenerateMasterKeys(d,
                                       [i \in 1..d.L |-> [ok |-> TRUE, v |-> v]])
                          IN  [err |-> k.err, S |-> k.sec, T |-> <<>>,
                               pub |-> k.pub, draws |-> k.draws]} :
            \E sk \in {[set |-> TRUE, S |-> keys.S, T |-> keys.T]} :
                \E enc \in {IF d.kind = "Damgard"
                            THEN DamgardEncrypt(d, x, keys.pub,
                                                [ok |-> TRUE, v |-> r])
                            ELSE DDHEncrypt(d, x, keys.pub,
                                            [ok |-> TRUE, v |-> r])},
                   key \in {IF d.kind = "Damgard"
                            THEN DamgardDeriveKey(d, sk, y)
                            ELSE LET k == DDHDeriveKey(d, sk.S, y)
                                 IN  [err |-> k.err, Key1 |-> k.key,
                                      Key2 |-> 0]} :
                    /\ scheme = d
                    /\ pc = "idle"
                    /\ pending = NoPending
                    /\ msk = sk
                    /\ mpk = keys.pub
                    /\ ct = [set |-> TRUE, x |-> x, r |-> r, c |-> enc.val]
                    /\ dk = [set |-> TRUE, y |-> y, Key1 |-> key.Key1,
                             Key2 |-> key.Key2]
                    /\ ret = [op |-> "none", err |-> "nil", draws |-> 0]
                    /\ calls = [c \in Callers |-> IdleCall]

\* a caller with no call in flight calls Encrypt(x, masterPubKey),
\* DeriveKey(masterSecKey, y) or Decrypt(cipher, key, y) on the shared objects
StartCall ==
    /\ \E c \in Callers, op \in {"Encrypt", "DeriveKey", "Decrypt"} :
        /\ calls[c].pc \in {"idle", "done"}
        /\ calls' = [calls EXCEPT ![c] =
                        [IdleCall EXCEPT
                            !.op = op,
                            !.pc = "check",
                            !.a = [d |-> scheme, sk |-> msk, pub |-> mpk,
                                   cipher |-> ct.c, key |-> dk, x |-> ct.x,
                                   y |-> dk.y]]]
    /\ UNCHANGED <<scheme, pc, pending, msk, mpk, ct, dk, ret>>

InFlight(f, op) == f.op = op /\ f.pc \notin {"idle", "done"}

StepEncrypt ==
    /\ \E c \in Callers :
        /\ InFlight(calls[c], "Encrypt")
        /\ \E s \in (IF calls[c].pc = "sample"
                     THEN SampleOutcomes(2, scheme.Q) ELSE {SampleFail}) :
            calls' = [calls EXCEPT ![c] =
                         EncryptStep(scheme, ct.x, mpk, calls[c], s)]
    /\ UNCHANGED <<scheme, pc, pending, msk, mpk, ct, dk, ret>>

StepDeriveKey ==
    /\ \E c \in Callers :
        /\ InFlight(calls[c], "DeriveKey")
        /\ calls' = [calls EXCEPT ![c] =
                        DeriveKeyStep(scheme, msk, dk.y, calls[c])]
    /\ UNCHANGED <<scheme, pc, pending, msk, mpk, ct, dk, ret>>

StepDecrypt ==
    /\ \E c \in Callers :
        /\ InFlight(calls[c], "Decrypt")
        /\ \E res \in {DecryptStep(scheme, ct.c, dk, dk.y, calls[c])} :
            /\ calls' = [calls EXCEPT ![c] = res.f]
            /\ ct' = [ct EXCEPT !.c = res.cipher]
    /\ UNCHANGED <<scheme, pc, pending, msk, mpk, dk, ret>>

ConcurrentNext ==
    \/ StartCall
    \/ StepEncrypt
    \/ StepDeriveKey
    \/ StepDecrypt

ConcurrentSpec == ConcurrentInit /\ [][ConcurrentNext]_vars

(***************************************************************************)
(* Properties.                                                             *)
(***************************************************************************)
RECURSIVE InnerProduct(_, _)
\* <v, w> over the integers, for vectors of equal length
InnerProduct(v, w) ==
    IF v = <<>> THEN 0
    ELSE Head(v) * Head(w) + InnerProduct(Tail(v), Tail(w))

\* L * B^2, the bound of the discrete-log search
DLogBound == scheme.L * scheme.Bound * scheme.Bound

\* Decrypt has just returned from the ciphertext of a bounded x of length
\* L, the key derived for a bounded y and the same y
HonestDecrypt ==
    /\ ret.op = "Decrypt"
    /\ ret.cipher = ct.c
    /\ ret.y = dk.y
    /\ Len(ct.x) = scheme.L

\* C1: Decrypt(Encrypt(x, PK), DeriveKey(SK, y), y) returns the signed
\* integer <x, y> for all bounded x and y of length L, in both schemes.
C1_RoundTrip ==
    HonestDecrypt => ret.err = "nil" /\ ret.val = InnerProduct(ct.x, dk.y)

\* the exponents e in [-bound, bound] with G^e = h (mod P)
BoundedLogs(h) ==
    {e \in (-DLogBound)..DLogBound : ModExp(scheme.G, e, scheme.P) = h}

\* C2: when the value r that Decrypt hands to the calculator is G^e mod P
\* for an e in [-bound, bound], the calculator returns exactly that e; a
\* negative e comes back negative.
C2_DLogRecovery ==
    (ret.op = "Decrypt" /\ ret.err \in {"nil", "DLogNotFound"})
        => \A e \in BoundedLogs(ret.r) : ret.err = "nil" /\ ret.val = e

\* C7: every integer Decrypt returns without error has absolute value at
\* most L*B^2; an r whose exponent lies outside the bound gives an error.
C7_DecryptWithinBound ==
    (ret.op = "Decrypt" /\ ret.err = "nil")
        => /\ ret.val >= -DLogBound
           /\ ret.val <= DLogBound

\* a constructor has just returned
SetupReturned ==
    /\ ret.op \in {"NewDamgard", "NewDamgardPrecomp", "NewDDH", "NewDDHPrecomp"}
    /\ ret.err # "running"

\* 2 * l * bound^2 of the constructor call that has just returned
SetupProd == 2 * ret.l * ret.bound * ret.bound

C4_PrecompModulus ==
    ret.op \in {"NewDamgardPrecomp", "NewDDHPrecomp"}
        => /\ (ret.err = "UnsupportedModulusError")
                <=> (ret.modulusLength
                        \notin {1024, 1536, 2048, 2560, 3072, 4096})
           /\ ret.err = "UnsupportedModulusError"
                => scheme = NilScheme /\ ret.draws = 0

\* an unknown modulus length was rejected in a call whose L and B exceed
\* every group order of the table
C4_UnsupportedBeforePrecondition ==
    /\ ret.op \in {"NewDamgardPrecomp", "NewDDHPrecomp"}
    /\ ret.err = "UnsupportedModulusError"
    /\ ret.l = MaxL
    /\ ret.bound = MaxB

\* some coordinate of v lies outside [-Bound, Bound]
OutOfBound(v) ==
    \E i \in 1..Len(v) : v[i] > scheme.Bound \/ v[i] < -scheme.Bound

\* the user-supplied vector of the call that has just returned
UserVector == IF ret.op = "Encrypt" THEN ret.x ELSE ret.y

\* C5: Encrypt, DeriveKey and Decrypt return BoundError exactly when a
\* coordinate of the user's vector lies outside [-B, B]; a rejected Encrypt
\* has drawn no randomness and returns no ciphertext.
C5_BoundCheck ==
    ret.op \in {"Encrypt", "DeriveKey", "Decrypt"}
        => /\ ret.err = "BoundError" <=> OutOfBound(UserVector)
           /\ ret.err = "BoundError" => ret.draws = 0
           /\ (ret.op = "Encrypt" /\ ret.err = "BoundError") => ret.val = <<>>

\* Encrypt rejected a vector with a coordinate B+1 and drew nothing
C5_EncryptRejected ==
    /\ ret.op = "Encrypt"
    /\ ret.err = "BoundError"
    /\ \E i \in 1..Len(ret.x) : ret.x[i] = scheme.Bound + 1
    /\ scheme.Bound >= 1

\* C6: every call of Encrypt, DeriveKey and Decrypt returns a value or an
\* explicit error; none ends in a run-time panic.
C6_NoPanic ==
    ret.op \in {"Encrypt", "DeriveKey", "Decrypt"} => ret.err # "panic"

\* k is the residue of n in [0, q)
IsResidue(k, n, q) == k >= 0 /\ k < q /\ (n - k) % q = 0

\* C8 (result): DeriveKey draws no randomness and returns <s,y> mod Q (and
\* <t,y> mod Q for Damgard) as residues in [0, Q).
C8_DerivedKeyValue ==
    (ret.op = "DeriveKey" /\ ret.err = "nil")
        => /\ ret.draws = 0
           /\ IsResidue(ret.Key1, InnerProduct(msk.S, ret.y), scheme.Q)
           /\ scheme.kind = "Damgard"
                => IsResidue(ret.Key2, InnerProduct(msk.T, ret.y), scheme.Q)
           /\ dk.Key1 = ret.Key1 /\ dk.Key2 = ret.Key2

\* C8: DeriveKey is a deterministic function of (SK, y): it returns the
\* residues of C8_DerivedKeyValue, and a second call with the same (SK, y)
\* returns the key of the first.
C8_DeriveKeyDeterministic ==
    /\ []C8_DerivedKeyValue
    /\ [][(/\ ret'.op = "DeriveKey"
           /\ ret'.err = "nil"
           /\ dk.set
           /\ ret'.y = dk.y)
              => dk' = dk]_vars

\* DeriveKey returned the key of a y with <s,y> negative
C8_NegativeDot ==
    /\ ret.op = "DeriveKey"
    /\ ret.err = "nil"
    /\ scheme.kind = "Damgard"
    /\ scheme.L = 2
    /\ InnerProduct(msk.S, ret.y) < 0
    /\ InnerProduct(msk.T, ret.y) < 0

\* C9: every Encrypt samples one fresh r in [2, Q); a second encryption of
\* the same x with another r gives another ciphertext (another G^r), and
\* every such ciphertext decrypts to <x, y>.
C9_EncryptRandomized ==
    [][/\ (ret'.op = "Encrypt" /\ ret'.err = "nil")
            => /\ ret'.draws = 1
               /\ ct'.r >= 2 /\ ct'.r < scheme.Q
               /\ (ct.set /\ ct'.x = ct.x /\ ct'.r # ct.r)
                    => ct'.c # ct.c /\ ct'.c[1] # ct.c[1]
       /\ (/\ ret'.op = "Decrypt"
           /\ ret'.cipher = ct.c
           /\ ret'.y = dk.y
           /\ Len(ct.x) = scheme.L)
            => ret'.err = "nil" /\ ret'.val = InnerProduct(ct.x, dk.y)]_vars

C11_ValidScheme ==
    /\ (SetupReturned /\ ret.err = "nil")
        => /\ scheme.L = ret.l /\ scheme.Bound = ret.bound
           /\ scheme.L >= 1
           /\ scheme.Bound >= 1
           /\ 2 * scheme.L * scheme.Bound * scheme.Bound <= scheme.Q
    /\ (SetupReturned /\ (ret.l <= 0 \/ ret.bound <= 0))
        => scheme = NilScheme

\* C12: no GenerateMasterKeys, DeriveKey, Encrypt or Decrypt call, whether
\* it succeeds or fails, changes the scheme's parameters or an object handed
\* to it: the master keys once generated, the ciphertext and derived key
\* handed to Decrypt, the x handed to Encrypt and the y handed to DeriveKey.
C12_Immutable ==
    [][ret'.op \in {"GenerateMasterKeys", "DeriveKey", "Encrypt", "Decrypt"}
        => /\ scheme' = scheme
           /\ msk.set => (msk' = msk /\ mpk' = mpk)
           /\ ret'.op # "Encrypt" => ct' = ct
           /\ ret'.op # "DeriveKey" => dk' = dk
           /\ (ret'.op = "Encrypt" /\ ct.set) => ct'.x = ct.x
           /\ (ret'.op = "DeriveKey" /\ dk.set) => dk'.y = dk.y]_vars

\* Decrypt has run its loop over the ciphertext of a scheme of length 2
C12_DecryptReturned ==
    /\ ret.op = "Decrypt"
    /\ ret.err \in {"nil", "DLogNotFound"}
    /\ scheme.L = 2
    /\ Len(ct.c) = Len(ct.x) + (IF scheme.kind = "Damgard" THEN 2 ELSE 1)
    /\ ret.cipher = ct.c

\* g^e mod p for a g of order q and any integer e
GroupPow(g, e, p, q) == Exp(g, e % q, p)

\* number of leading components of a ciphertext before the e_i
HeadLen == IF scheme.kind = "Damgard" THEN 2 ELSE 1

\* C14: a ciphertext returned by Encrypt has length L+1 (Simple DDH) or L+2
\* (Damgard); its first component is G^r, for Damgard the second is H^r,
\* and the following ones are h_i^r * G^(x_i) mod P, all for the one r in
\* [2, Q) sampled in the call.
C14_CiphertextShape ==
    (ret.op = "Encrypt" /\ ret.err = "nil")
        => /\ ct.c = ret.val /\ ct.x = ret.x
           /\ ret.draws = 1
           /\ ct.r >= 2 /\ ct.r < scheme.Q
           /\ Len(ret.val) = scheme.L + HeadLen
           /\ ret.val[1] = Exp(scheme.G, ct.r, scheme.P)
           /\ scheme.kind = "Damgard"
                => ret.val[2] = Exp(scheme.H, ct.r, scheme.P)
           /\ \A i \in 1..Len(ret.x) :
                ret.val[i + HeadLen] =
                    (Exp(mpk[i], ct.r, scheme.P)
                       * GroupPow(scheme.G, ret.x[i], scheme.P, scheme.Q))
                    % scheme.P

\* C15: a successful GenerateMasterKeys returns secret and public vectors
\* of length L; every s_i (and t_i) is the value of a Sample() call of its
\* own, in [2, Q); h_i = G^(s_i) mod P (Simple DDH) or
\* G^(s_i) * H^(t_i) mod P (Damgard).
C15_KeyGen ==
    (ret.op = "GenerateMasterKeys" /\ ret.err = "nil")
        => /\ msk.set /\ msk.S = ret.S /\ msk.T = ret.T /\ mpk = ret.pub
           /\ Len(ret.S) = scheme.L
           /\ Len(ret.pub) = scheme.L
           /\ \A i \in 1..scheme.L : ret.S[i] >= 2 /\ ret.S[i] < scheme.Q
           /\ IF scheme.kind = "Damgard"
              THEN /\ Len(ret.T) = scheme.L
                   /\ ret.draws = 2 * scheme.L
                   /\ \A i \in 1..scheme.L :
                        /\ ret.T[i] >= 2 /\ ret.T[i] < scheme.Q
                        /\ ret.S[i] = ret.tape[2 * i - 1].v
                        /\ ret.T[i] = ret.tape[2 * i].v
                        /\ ret.pub[i] =
                             (Exp(scheme.G, ret.S[i], scheme.P)
                                * Exp(scheme.H, ret.T[i], scheme.P)) % scheme.P
              ELSE /\ ret.draws = scheme.L
                   /\ \A i \in 1..scheme.L :
                        /\ ret.S[i] = ret.tape[i].v
                        /\ ret.pub[i] = Exp(scheme.G, ret.S[i], scheme.P)

\* GenerateMasterKeys returned Damgard keys of length 2 whose four secret
\* coordinates are not all equal
C15_DistinctCoordinates ==
    /\ ret.op = "GenerateMasterKeys"
    /\ ret.err = "nil"
    /\ scheme.kind = "Damgard"
    /\ scheme.L = 2
    /\ ret.S[1] # ret.S[2]
    /\ ret.S[1] # ret.T[1]

\* C16: when Decrypt is given a ciphertext of a bounded x of length L made
\* by Encrypt, the derived key of a bounded y and that y, the value r it
\* hands to the discrete-log calculator is G^(<x,y>) mod P, whatever the
\* signs of the y_i and of <x,y> and whatever r Encrypt sampled.
C16_DecryptAlgebra ==
    HonestDecrypt
        => /\ ret.err \in {"nil", "DLogNotFound"}
           /\ ret.r = GroupPow(scheme.G, InnerProduct(ct.x, dk.y),
                               scheme.P, scheme.Q)

\* an honest Decrypt on a scheme of length 2 with a negative y_i and a
\* negative <x,y>
C16_NegativeInnerProduct ==
    /\ HonestDecrypt
    /\ scheme.L = 2
    /\ \E i \in 1..2 : dk.y[i] < 0 /\ ct.x[i] > 0
    /\ InnerProduct(ct.x, dk.y) < 0

\* b^e mod p for a unit b: for e < 0 the inverse of b^|e|
SignedPow(b, e, p) ==
    IF e >= 0 THEN Exp(b, e, p)
    ELSE CHOOSE v \in 1..(p - 1) : (v * Exp(b, -e, p)) % p = 1

RECURSIVE SignedProduct(_, _, _, _, _)
\* the product of cipher[skip+i]^(y_i) mod p over i = 1..n
SignedProduct(cipher, skip, y, p, n) ==
    IF n = 0 THEN 1
    ELSE (SignedProduct(cipher, skip, y, p, n - 1)
            * SignedPow(cipher[skip + n], y[n], p)) % p

\* denom of the Decrypt call that has just returned
Denom ==
    IF scheme.kind = "Damgard"
    THEN (Exp(ret.cipher[1], dk.Key1, scheme.P)
            * Exp(ret.cipher[2], dk.Key2, scheme.P)) % scheme.P
    ELSE Exp(ret.cipher[1], dk.Key1, scheme.P)

\* C17: the exponentiations by plaintext coordinates are signed: in a
\* ciphertext e_i = h_i^r * G^(x_i) mod P with G^(x_i) the inverse of
\* G^|x_i| for x_i < 0; in Decrypt r * denom = prod_i ct_i^(y_i) mod P with
\* the inverse of ct_i^|y_i| for y_i < 0; and ModExp(b,-n,P) * ModExp(b,n,P)
\* = 1 (mod P) for every unit b and n up to the bound.
C17_SignedExponents ==
    /\ (ret.op = "Encrypt" /\ ret.err = "nil")
        => \A i \in 1..Len(ret.x) :
             ret.val[i + HeadLen] =
                 (Exp(mpk[i], ct.r, scheme.P)
                    * SignedPow(scheme.G, ret.x[i], scheme.P)) % scheme.P
    /\ (ret.op = "Decrypt" /\ ret.err \in {"nil", "DLogNotFound"})
        => (ret.r * Denom) % scheme.P =
             SignedProduct(ret.cipher, HeadLen, ret.y, scheme.P,
                           Len(ret.cipher) - HeadLen)
    /\ scheme # NilScheme
        => \A b \in 1..(scheme.P - 1), n \in 0..scheme.Bound :
             (ModExp(b, -n, scheme.P) * ModExp(b, n, scheme.P)) % scheme.P = 1

\* Encrypt returned the ciphertext of an x with a negative coordinate
C17_NegativeCoordinate ==
    /\ ret.op = "Encrypt"
    /\ ret.err = "nil"
    /\ scheme.kind = "DDH"
    /\ \E i \in 1..Len(ret.x) : ret.x[i] < 0

\* C18: a failing Sample() call ends the operation at once: NewDamgard
\* returns the error and no scheme in the round whose Sample() failed,
\* GenerateMasterKeys returns the error and no key material with the failing
\* call as its last, Encrypt returns the error and no ciphertext after its
\* one call; no operation returns success after a failed Sample(), and only
\* NewDamgard's loop draws again (after a rejected h).
C18_SamplingErrorSurfaced ==
    /\ (ret.op = "NewDamgard" /\ ret.draws >= 1)
        => /\ ret.err = "SamplingError" <=> ~ret.sampled
           /\ ret.err = "SamplingError" => (scheme = NilScheme /\ pc = "idle")
    /\ ret.op = "GenerateMasterKeys"
        => /\ ret.draws = Len(ret.calls)
           /\ ret.err = "SamplingError"
                <=> (\E k \in 1..Len(ret.calls) : ~ret.calls[k])
           /\ ret.err = "SamplingError"
                => /\ \A k \in 1..Len(ret.calls) :
                        ret.calls[k] <=> k < Len(ret.calls)
                   /\ ret.S = <<>> /\ ret.T = <<>> /\ ret.pub = <<>>
                   /\ ~msk.set /\ mpk = <<>>
           /\ ret.err = "nil"
                => ret.draws =
                     (IF scheme.kind = "Damgard" THEN 2 ELSE 1) * scheme.L
    /\ ret.op = "Encrypt"
        => /\ ret.draws <= 1
           /\ ret.err = "SamplingError" => (ret.draws = 1 /\ ret.val = <<>>)
    /\ ret.op \in {"DeriveKey", "Decrypt"}
        => ret.draws = 0 /\ ret.err # "SamplingError"

\* NewDamgard returned a sampling error from a round after the first
C18_FailureAfterRejection ==
    /\ ret.op = "NewDamgard"
    /\ ret.err = "SamplingError"
    /\ ret.draws >= 2

\* C19: whenever NewDamgard is in its H-selection loop, some r in [2, Q)
\* gives an H = G^r mod P that passes both filters, so that the loop exits
\* under fair sampling.
C19_SomeAcceptableR ==
    pc = "hloop"
        => \E r \in 2..(pending.key.Q - 1) :
             HSelect(pending.key, [ok |-> TRUE, v |-> r]) = "break"

\* C20: NewDamgardFromParams and NewDDHFromParams return, without error and
\* without a sampler draw, a scheme whose parameters are the bundle handed
\* in, also when the bundle has 2*L*B^2 > Q; a scheme rebuilt from the
\* parameters of an existing scheme has the parameters of that scheme, and a
\* Decrypt on it returns what the Decrypt of the same ciphertext and y
\* returned before the rebuild.
C20_FromParams ==
    [][/\ ret'.op \in {"NewDamgardFromParams", "NewDDHFromParams"}
            => /\ ret'.err = "nil"
               /\ ret'.draws = 0
               /\ scheme' = ret'.params
               /\ scheme' # NilScheme
               /\ scheme # NilScheme => scheme' = scheme
               /\ UNCHANGED <<msk, mpk, ct, dk>>
       /\ (/\ ret.op \in {"NewDamgardFromParams", "NewDDHFromParams"}
           /\ ret.prev.set
           /\ ret'.op = "Decrypt"
           /\ ret'.cipher = ret.prev.cipher
           /\ ret'.y = ret.prev.y)
            => ret'.err = ret.prev.err /\ ret'.val = ret.prev.val]_vars

\* a scheme was rebuilt from its parameters after a Decrypt that returned a
\* value
C20_RebuiltAfterDecrypt ==
    /\ ret.op \in {"NewDamgardFromParams", "NewDDHFromParams"}
    /\ ret.prev.set
    /\ ret.prev.err = "nil"
    /\ ct.set /\ dk.set

\* what a call returns when it runs alone on the objects it was called with
\* and draws the same sample
Alone(f) ==
    CASE f.op = "Encrypt" ->
            LET res == IF f.a.d.kind = "Damgard"
                       THEN DamgardEncrypt(f.a.d, f.a.x, f.a.pub, f.s)
                       ELSE DDHEncrypt(f.a.d, f.a.x, f.a.pub, f.s)
            IN  [err |-> res.err, out |-> res.val]
      [] f.op = "DeriveKey" ->
            IF f.a.d.kind = "Damgard"
            THEN LET res == DamgardDeriveKey(f.a.d, f.a.sk, f.a.y)
                 IN  [err |-> res.err, out |-> <<res.Key1, res.Key2>>]
            ELSE LET res == DDHDeriveKey(f.a.d, f.a.sk.S, f.a.y)
                 IN  [err |-> res.err, out |-> <<res.key>>]
      [] f.op = "Decrypt" ->
            LET res == IF f.a.d.kind = "Damgard"
                       THEN DamgardDecrypt(f.a.d, f.a.cipher, f.a.key, f.a.y)
                       ELSE DDHDecrypt(f.a.d, f.a.cipher, f.a.key.Key1,
                                       f.a.y)
            IN  [err |-> res.err, out |-> res.val]

\* the shared objects are as they were when the call was made
Untouched(f) ==
    /\ f.a.d = scheme
    /\ f.a.sk = msk
    /\ f.a.pub = mpk
    /\ f.a.cipher = ct.c
    /\ f.a.key = dk
    /\ f.a.x = ct.x
    /\ f.a.y = dk.y

\* C13: when Encrypt, DeriveKey and Decrypt calls run interleaved on one
\* scheme instance and one set of keys, every call that has returned has
\* returned what it returns when run alone with the same inputs and the same
\* sample, and at no point of a call do the shared objects differ from what
\* they were when the call was made, so no call sees a partial write
C13_ConcurrentReaders ==
    \A c \in Callers :
        /\ calls[c].pc # "idle" => Untouched(calls[c])
        /\ calls[c].pc = "done" =>
              /\ calls[c].err = Alone(calls[c]).err
              /\ calls[c].err = "nil" => calls[c].out = Alone(calls[c]).out

\* one caller is between two rounds of the loop of Decrypt while another is
\* between two rounds of the loop of Decrypt or of Encrypt
C13_CallsOverlap ==
    \E c \in Callers, e \in Callers :
        /\ c # e
        /\ calls[c].op = "Decrypt" /\ calls[c].pc = "loop" /\ calls[c].i = 1
        /\ calls[e].op \in {"Decrypt", "Encrypt"}
        /\ calls[e].pc = "loop" /\ calls[e].i = 1

====
